---- MODULE Spec2Model ----
(***************************************************************************)
(* A model of the retry decorator (common/helpers/retry_service.py) and of *)
(* the request-scoped structured logger (common/logging/custom_logger.py,  *)
(* common/logging/middleware.py).                                          *)
(*                                                                         *)
(* Retry part: one decorator configuration (the arguments of retry(...))   *)
(* and, per call of a wrapper, the position of the coroutine               *)
(* _retry_function, its attempt counter and the events it produced.        *)
(*                                                                         *)
(* Logging part: the requests in flight, each in its own task (and so with *)
(* its own copy of the context variable request_id_var), the CustomLogger  *)
(* instances they log through, and the records emitted.                    *)
(*                                                                         *)
(* Request part: the two ways a request gets its id (the middleware's      *)
(* dispatch, and the dependencies of app/dependencies.py through           *)
(* common/logging/request_context.py), and the way an exception raised by  *)
(* a route becomes a response and error records                            *)
(* (common/exceptions/handlers.py, common/exceptions/pnc_exceptions.py).   *)
(*                                                                         *)
(* Logger internals: the shipping of a record by DatadogHttpHandler.emit   *)
(* and the caller lookup of CustomLogger._get_caller_info, each as a       *)
(* function of what its environment does.                                  *)
(***************************************************************************)
EXTENDS Integers, Sequences, FiniteSets, TLC

\* ------------------------------------------------------------------ bounds
MaxTries == 3
MaxDelay == 1
MaxBackoff == 2
MaxRequests == 2

Calls == {1, 2}
Requests == 1..MaxRequests

\* ------------------------------------------------------- exception classes
\* The classes an operation raises in the tests, and the ones Python raises
\* around it.
OpErrors == {"KindA", "KindB"}
OpOutcomes == {"ok"} \cup OpErrors

\* issubclass(c, d) for the classes of the model: every class derives from
\* BaseException; all but CancelledError derive from Exception.
IsSubclass(c, d) ==
    \/ c = d
    \/ d = "BaseException"
    \/ d = "Exception" /\ c # "CancelledError"

\* The values retry(exceptions_to_check=...) is given: one class or a list.
ExceptionArgs ==
    { [is_list |-> FALSE, cls |-> "Exception", classes |-> <<>>],
      [is_list |-> FALSE, cls |-> "KindA", classes |-> <<>>],
      [is_list |-> TRUE,  cls |-> "", classes |-> <<"KindA", "KindB">>],
      [is_list |-> TRUE,  cls |-> "", classes |-> <<"BaseException">>] }

\* if not isinstance(exceptions_to_check, list): [exceptions_to_check]
NormalizeExceptions(arg) == IF arg.is_list THEN arg.classes ELSE <<arg.cls>>

VARIABLES
    \* retry(...) arguments
    max_tries, delay_seconds, backoff_factor, exceptions_to_check, logger_provider,
    \* the calls of this run
    active,
    \* per call: the decorated operation and the call's arguments
    is_async, declares_logger, logger_kw,
    \* per call: the coroutine _retry_function
    pc, attempt, calls, results, trace, last_exception, outcome,
    wrapper_returned, func_got_logger, cancel_requested,
    \* the requests: position of dispatch, request.state, the task's context
    req_pc, state_request_id, request_id_var, next_uuid,
    \* the CustomLogger instances that outlive a statement, by name: 0 is a
    \* module-level logger, r > 0 is request r's request.state.logger
    loggers,
    \* history: the log call made last, and the bind_request_id calls made
    \* on the module-level logger
    last_record, bind_calls,
    \* the application: whether RequestLoggingMiddleware is installed, and
    \* the exception the route's handler raises (if any)
    middleware_installed, route_raises,
    \* per request: its path and {requestId} path parameter, the context
    \* variable of request_context.py, whether request.state has a logger
    \* and whether the route's dependency ran
    path, path_params, rc_request_id_var, state_has_logger, dependency_ran,
    \* per request: the exception in flight, where it is, the response sent
    exc, exc_at, response,
    \* history, per request: the ids stored in request.state.request_id, the id
    \* an entry setup stored last in a context variable, the logger
    \* get_logger(name) returned last, the error-level records of the
    \* request's errors
    id_assignments, last_set, obtained, error_records,
    \* history, per request: the audit records dispatch emitted, and the
    \* request_id argument of the request's setup_request_context call
    audit_records, setup_arg,
    \* the shipping of records: the calls of DatadogHttpHandler.emit made
    emit_log,
    \* caller lookup: a logger's _caller_info_cache, and the last call of
    \* _get_caller_info
    caller_info_cache, caller_lookup

policy_vars == <<max_tries, delay_seconds, backoff_factor, exceptions_to_check, logger_provider>>
input_vars == <<active, is_async, declares_logger, logger_kw>>
call_vars == <<pc, attempt, calls, results, trace, last_exception, outcome,
               wrapper_returned, func_got_logger, cancel_requested>>
retry_vars == <<policy_vars, input_vars, call_vars>>

log_vars == <<req_pc, state_request_id, request_id_var, next_uuid, loggers,
             last_record, bind_calls>>

web_vars == <<middleware_installed, route_raises, path, path_params, rc_request_id_var,
             state_has_logger, dependency_ran, exc, exc_at, response,
             id_assignments, last_set, obtained, error_records,
             audit_records, setup_arg, emit_log, caller_info_cache, caller_lookup>>

pure_vars == <<emit_log, caller_info_cache, caller_lookup>>

vars == <<retry_vars, log_vars, web_vars>>

\* ------------------------------------------------------------------ values
NoError == [kind |-> "none", cls |-> "", n |-> 0, src |-> ""]
\* the value returned by the n-th invocation of the operation
Value(n) == [kind |-> "value", cls |-> "", n |-> n, src |-> "op"]
\* an error of class cls; src says who raised it: the operation's n-th
\* invocation ("op"), the call expression that could not bind logger=
\* ("binding"), the logger object ("logger"), raise None ("raise"), or the
\* cancelled sleep ("cancel")
Error(cls, n, src) == [kind |-> "error", cls |-> cls, n |-> n, src |-> src]

CallEvent(n, res) == [ev |-> "call", n |-> n, what |-> res, dur |-> 0, ok |-> TRUE]
LogEvent(level, logger, att, wait, ok) ==
    [ev |-> level, n |-> att, what |-> logger, dur |-> wait, ok |-> ok]
SleepEvent(kind, wait) == [ev |-> "sleep", n |-> 0, what |-> kind, dur |-> wait, ok |-> TRUE]

RECURSIVE Pow(_, _)
Pow(b, e) == IF e <= 0 THEN 1 ELSE b * Pow(b, e - 1)

\* ------------------------------------------------------------ _retry_function
\* (a bare except: every error is caught)
IsRetryableAny(cls) == TRUE

\* except tuple(exceptions_to_check) as exc
IsRetryable(cls) ==
    \E i \in 1..Len(exceptions_to_check) : IsSubclass(cls, exceptions_to_check[i])

\* if attempt < max_tries
HasTriesLeft(att) == att < max_tries

\* wait_time = delay_seconds * (backoff_factor ** (attempt - 1))
WaitTime(att) == delay_seconds * Pow(backoff_factor, att - 1)

\* (the blocking branch sleeping the initial delay, without the backoff)
SleepSyncFlat(async, wait) ==
    IF async THEN SleepEvent("asyncio.sleep", wait) ELSE SleepEvent("time.sleep", delay_seconds)

\* if is_async: await asyncio.sleep(wait_time) else: time.sleep(wait_time)
Sleep(async, wait) ==
    IF async THEN SleepEvent("asyncio.sleep", wait) ELSE SleepEvent("time.sleep", wait)

\* The logger keyword _retry_function receives from the wrapper: with a
\* logger_provider the wrapper declares logger=logger_provider and passes
\* logger=logger on; without one it passes **kwargs on as they are.
KwLogger(c) ==
    IF logger_provider /\ logger_kw[c] = "absent" THEN "provider" ELSE logger_kw[c]

\* _get_logger: kwargs.get('logger'), or logging.getLogger(module) when None
_get_logger(c) ==
    IF KwLogger(c) \in {"absent", "None"} THEN "default" ELSE KwLogger(c)

\* logger.warning / logger.error exist on a logger; the provider is a plain
\* callable and has neither.
HasLogMethods(logger) == logger # "provider"

\* func(*args, **kwargs): kwargs holds 'logger' whenever _retry_function got it
ForwardsLogger(c) == KwLogger(c) # "absent"

\* What the n-th call expression func(*args, **kwargs) yields when the
\* operation itself would yield o: a logger= the operation does not declare
\* is a TypeError before its body runs.
InvokeResult(c, o, n) ==
    IF ForwardsLogger(c) /\ ~declares_logger[c] THEN Error("TypeError", n, "binding")
    ELSE IF o = "ok" THEN Value(n)
    ELSE Error(o, n, "op")

\* What calling the wrapper hands back: every wrapper returns the coroutine of
\* the async _retry_function (the async wrappers are coroutine functions, the
\* sync wrappers return _retry_function(...) unawaited).
WrapperReturns(async) == "coroutine"

\* What calling the undecorated operation hands back.
UndecoratedReturns(async) == IF async THEN "coroutine" ELSE "value"

\* ------------------------------------------------------------ CustomLogger
\* request_id_var = contextvars.ContextVar("request_id", default=None)
None == 0
LoggerNames == {0} \cup Requests

\* CustomLogger.__init__: two structlog loggers with nothing bound (each is
\* represented by the request_id bound into it), request_id = None
CustomLogger == [request_id |-> None, domain_logger |-> None, audit_logger |-> None]

\* CustomLogger.bind_request_id: the value of the instance self after the
\* call; the method returns self.
bind_request_id(self, request_id) ==
    [request_id |-> request_id, domain_logger |-> request_id, audit_logger |-> request_id]

\* get_logger(name, request_id) in a task whose context holds ctx_request_id
get_logger(request_id, ctx_request_id) ==
    IF request_id # None THEN bind_request_id(CustomLogger, request_id)
    ELSE IF ctx_request_id # None THEN bind_request_id(CustomLogger, ctx_request_id)
    ELSE CustomLogger

\* The level methods of CustomLogger, and audit.
Levels == {"debug", "info", "warning", "error", "critical"}
Methods == Levels \cup {"audit"}

\* The keyword arguments of a log call, by their names. _get_caller_info
\* always yields the keys module, func_name and lineno.
CallerInfoKeys == {"module", "func_name", "lineno"}
KwargSets ==
    { {}, {"item_id"}, {"status_code", "error"}, {"log_type"}, {"module"},
      {"func_name", "lineno"}, {"log_type", "item_id"} }
NoKwargs == {}

\* A call f(message, k1=..., **d1, **d2) whose keyword names repeat does not
\* reach f: Python raises TypeError (multiple values for keyword argument).
LogRaises(method, kwargs) ==
    [method |-> method, level |-> "", logger |-> "", log_type |-> "",
     request_id |-> None, kwargs |-> kwargs, raised |-> "TypeError"]

\* (a _log_domain that lets the caller's fields replace its own)
LogDomainOverridable(self, level, kwargs) ==
    [method |-> level, level |-> level, logger |-> "domain",
     log_type |-> IF "log_type" \in kwargs THEN "caller" ELSE "domain",
     request_id |-> self.domain_logger, kwargs |-> kwargs, raised |-> ""]

\* CustomLogger._log_domain, as debug/info/warning/error/critical call it:
\* getattr(self.domain_logger, level)(message, log_type="domain",
\* **caller_info, **kwargs)
_log_domain(self, level, kwargs) ==
    IF kwargs \cap ({"log_type"} \cup CallerInfoKeys) # {} THEN LogRaises(level, kwargs)
    ELSE [method |-> level, level |-> level, logger |-> "domain", log_type |-> "domain",
          request_id |-> self.domain_logger, kwargs |-> kwargs, raised |-> ""]

\* (an audit that routes through the domain logger)
AuditThroughDomain(self, kwargs) ==
    IF "log_type" \in kwargs THEN LogRaises("audit", kwargs)
    ELSE [method |-> "audit", level |-> "info", logger |-> "domain", log_type |-> "audit",
          request_id |-> self.domain_logger, kwargs |-> kwargs, raised |-> ""]

\* CustomLogger.audit: self.audit_logger.info(message, log_type="audit", **kwargs)
audit(self, kwargs) ==
    IF "log_type" \in kwargs THEN LogRaises("audit", kwargs)
    ELSE [method |-> "audit", level |-> "info", logger |-> "audit", log_type |-> "audit",
          request_id |-> self.audit_logger, kwargs |-> kwargs, raised |-> ""]

\* one log call, with the request that made it, the logger it went through
\* and whether that logger was obtained or bound during the request; rec is
\* what the call emitted, or the error it raised
Record(r, via, own, message, rec) ==
    [req |-> r, via |-> via, own |-> own, message |-> message,
     method |-> rec.method, level |-> rec.level, logger |-> rec.logger,
     log_type |-> rec.log_type, request_id |-> rec.request_id,
     kwargs |-> rec.kwargs, raised |-> rec.raised]

NoRecord ==
    [req |-> 0, via |-> "", own |-> FALSE, message |-> "", method |-> "", level |-> "",
     logger |-> "", log_type |-> "", request_id |-> None, kwargs |-> {}, raised |-> ""]

\* No request has arrived; the module-level logger was made at import time.
LogIdle ==
    /\ req_pc = [r \in Requests |-> "new"]
    /\ state_request_id = [r \in Requests |-> None]
    /\ request_id_var = [r \in Requests |-> None]
    /\ next_uuid = 1
    /\ loggers = [l \in LoggerNames |-> get_logger(None, None)]
    /\ last_record = NoRecord
    /\ bind_calls = {}

\* ------------------------------------------------------- exceptions, responses
\* An exception object: its class, str(exc), and its status_code attribute
\* when it has one. errors is the error list of a RequestValidationError.
Exc(cls, message, has_status_code, status_code) ==
    [cls |-> cls, message |-> message, has_status_code |-> has_status_code,
     status_code |-> status_code, errors |-> <<>>]
NoExc == Exc("", "", FALSE, 0)

\* A response: who produced it, its status, the kind of body ("json" or
\* "text"), the keys of a JSON body with the values of code and message, and
\* the value of detail
Response(by, status, body, keys, code, message, detail) ==
    [by |-> by, status |-> status, body |-> body, keys |-> keys, code |-> code,
     message |-> message, detail |-> detail]
NoResponse == Response("", 0, "", {}, 0, "", <<>>)

\* get_logger returned nothing yet in this request
NoLogger == [logger |-> CustomLogger, ambient |-> None, got |-> FALSE]

\* The application as SpecLog has it: the middleware installed, a handler
\* that raises nothing.
AppDefault ==
    /\ middleware_installed = TRUE
    /\ route_raises = NoExc

\* setup_request_context was not called; was called with request_id
NotCalled == [called |-> FALSE, request_id |-> None]
CalledWith(request_id) == [called |-> TRUE, request_id |-> request_id]

\* An audit record of dispatch: its message, the request_id bound to the
\* logger it went through, and its status_code field when it has one
AuditRecord(message, logger, has_status_code, status_code) ==
    [message |-> message, request_id |-> logger.audit_logger,
     has_status_code |-> has_status_code, status_code |-> status_code]

\* _get_caller_info was not called
NoLookup == [stack |-> <<>>, has_currentframe |-> TRUE,
             info |-> [module |-> "", func_name |-> "", lineno |-> -1],
             raised |-> "", completed |-> FALSE]

\* No request has arrived; nothing was shipped and no caller looked up.
RequestsIdle ==
    /\ rc_request_id_var = [r \in Requests |-> None]
    /\ state_has_logger = [r \in Requests |-> FALSE]
    /\ dependency_ran = [r \in Requests |-> FALSE]
    /\ exc = [r \in Requests |-> NoExc]
    /\ exc_at = [r \in Requests |-> ""]
    /\ response = [r \in Requests |-> NoResponse]
    /\ id_assignments = [r \in Requests |-> <<>>]
    /\ last_set = [r \in Requests |-> None]
    /\ obtained = [r \in Requests |-> NoLogger]
    /\ error_records = [r \in Requests |-> <<>>]
    /\ audit_records = [r \in Requests |-> <<>>]
    /\ setup_arg = [r \in Requests |-> NotCalled]
    /\ emit_log = <<>>
    /\ caller_info_cache = {}
    /\ caller_lookup = NoLookup

\* No request has arrived; all will go to /request.
WebIdle ==
    /\ path = [r \in Requests |-> "/request"]
    /\ path_params = [r \in Requests |-> None]
    /\ RequestsIdle

\* ------------------------------------------------------------------ Init
RetryIdle ==
    /\ pc = [c \in Calls |-> "idle"]
    /\ attempt = [c \in Calls |-> 0]
    /\ calls = [c \in Calls |-> 0]
    /\ results = [c \in Calls |-> <<>>]
    /\ trace = [c \in Calls |-> <<>>]
    /\ last_exception = [c \in Calls |-> NoError]
    /\ outcome = [c \in Calls |-> NoError]
    /\ wrapper_returned = [c \in Calls |-> "nothing"]
    /\ func_got_logger = [c \in Calls |-> FALSE]
    /\ cancel_requested = [c \in Calls |-> FALSE]

Init ==
    /\ max_tries \in 0..MaxTries
    /\ delay_seconds \in 0..MaxDelay
    /\ backoff_factor \in 1..MaxBackoff
    /\ \E arg \in ExceptionArgs : exceptions_to_check = NormalizeExceptions(arg)
    /\ logger_provider \in BOOLEAN
    /\ active = {1}
    /\ \E a \in BOOLEAN : is_async = [c \in Calls |-> a]
    /\ \E d \in BOOLEAN : declares_logger = [c \in Calls |-> d]
    /\ \E k \in {"absent", "None", "explicit"} : logger_kw = [c \in Calls |-> k]
    /\ RetryIdle
    /\ LogIdle
    /\ AppDefault
    /\ WebIdle

\* ------------------------------------------------------------------ actions
\* wrapper(*args, **kwargs): builds the coroutine; nothing of it has run.
CallWrapper(c) ==
    /\ c \in active
    /\ pc[c] = "idle"
    /\ pc' = [pc EXCEPT ![c] = "created"]
    /\ wrapper_returned' = [wrapper_returned EXCEPT ![c] = WrapperReturns(is_async[c])]
    /\ UNCHANGED <<log_vars, web_vars, policy_vars, input_vars, attempt, calls, results, trace,
                   last_exception, outcome, func_got_logger, cancel_requested>>

\* The coroutine is awaited: logger and last_exception are set and the loop
\* for attempt in range(1, max_tries + 1) is entered; an empty range falls
\* through to raise last_exception with last_exception = None.
Await(c) ==
    /\ c \in active
    /\ pc[c] = "created"
    /\ IF max_tries >= 1
       THEN /\ pc' = [pc EXCEPT ![c] = "attempting"]
            /\ attempt' = [attempt EXCEPT ![c] = 1]
            /\ outcome' = outcome
       ELSE /\ pc' = [pc EXCEPT ![c] = "done"]
            /\ attempt' = attempt
            /\ outcome' = [outcome EXCEPT ![c] = Error("TypeError", 0, "raise")]
    /\ UNCHANGED <<log_vars, web_vars, policy_vars, input_vars, calls, results, trace, last_exception,
                   wrapper_returned, func_got_logger, cancel_requested>>

\* One pass of the loop body up to its next suspension: the invocation, and
\* on a caught error the warning and the start of the sleep, or the error log
\* and raise last_exception.
Invoke(c, o) ==
    /\ c \in active
    /\ pc[c] = "attempting"
    /\ LET n == calls[c] + 1
           r == InvokeResult(c, o, n)
           logger == _get_logger(c)
           called == Append(trace[c], CallEvent(n, r.cls))
       IN
       /\ calls' = [calls EXCEPT ![c] = n]
       /\ results' = [results EXCEPT ![c] = Append(@, IF r.kind = "value" THEN "ok" ELSE r.cls)]
       /\ func_got_logger' = [func_got_logger EXCEPT ![c] = ForwardsLogger(c)]
       /\ IF r.kind = "value"
          THEN \* return func(*args, **kwargs)
               /\ outcome' = [outcome EXCEPT ![c] = r]
               /\ pc' = [pc EXCEPT ![c] = "done"]
               /\ trace' = [trace EXCEPT ![c] = called]
               /\ last_exception' = last_exception
          ELSE IF ~IsRetryable(r.cls)
          THEN \* not caught: propagates
               /\ outcome' = [outcome EXCEPT ![c] = r]
               /\ pc' = [pc EXCEPT ![c] = "done"]
               /\ trace' = [trace EXCEPT ![c] = called]
               /\ last_exception' = last_exception
          ELSE /\ last_exception' = [last_exception EXCEPT ![c] = r]
               /\ IF ~HasLogMethods(logger)
                  THEN \* logger.warning / logger.error: AttributeError
                       /\ outcome' = [outcome EXCEPT ![c] = Error("AttributeError", 0, "logger")]
                       /\ pc' = [pc EXCEPT ![c] = "done"]
                       /\ trace' = [trace EXCEPT ![c] =
                             Append(called,
                                    LogEvent(IF HasTriesLeft(attempt[c]) THEN "warning" ELSE "error",
                                             logger, attempt[c], 0, FALSE))]
                  ELSE IF HasTriesLeft(attempt[c])
                  THEN /\ outcome' = outcome
                       /\ pc' = [pc EXCEPT ![c] = "waiting"]
                       /\ trace' = [trace EXCEPT ![c] =
                             called \o <<LogEvent("warning", logger, attempt[c],
                                                  WaitTime(attempt[c]), TRUE),
                                         Sleep(is_async[c], WaitTime(attempt[c]))>>]
                  ELSE /\ outcome' = [outcome EXCEPT ![c] = r]
                       /\ pc' = [pc EXCEPT ![c] = "done"]
                       /\ trace' = [trace EXCEPT ![c] =
                             Append(called, LogEvent("error", logger, attempt[c], 0, TRUE))]
    /\ UNCHANGED <<log_vars, web_vars, policy_vars, input_vars, attempt, wrapper_returned, cancel_requested>>

\* The enclosing task is cancelled while the coroutine is in its wait.
Cancel(c) ==
    /\ c \in active
    /\ pc[c] = "waiting"
    /\ ~cancel_requested[c]
    /\ cancel_requested' = [cancel_requested EXCEPT ![c] = TRUE]
    /\ UNCHANGED <<log_vars, web_vars, policy_vars, input_vars, pc, attempt, calls, results, trace,
                   last_exception, outcome, wrapper_returned, func_got_logger>>

\* (an attempt counter kept in the decorator, one for all calls of the
\* wrapper: the end of a wait advances it for every call in flight)
SleepReturnsSharedCounter(c) ==
    /\ c \in active
    /\ pc[c] = "waiting"
    /\ IF is_async[c] /\ cancel_requested[c]
       THEN /\ pc' = [pc EXCEPT ![c] = "done"]
            /\ outcome' = [outcome EXCEPT ![c] = Error("CancelledError", 0, "cancel")]
            /\ attempt' = attempt
       ELSE /\ pc' = [pc EXCEPT ![c] = "attempting"]
            /\ attempt' = [d \in Calls |-> IF d \in active /\ attempt[d] > 0
                                            THEN attempt[d] + 1 ELSE attempt[d]]
            /\ outcome' = outcome
    /\ UNCHANGED <<log_vars, web_vars, policy_vars, input_vars, calls, results, trace, last_exception,
                   wrapper_returned, func_got_logger, cancel_requested>>

\* The wait ends. await asyncio.sleep raises CancelledError in a cancelled
\* task, outside the try block; time.sleep knows nothing of the task and
\* returns when the time is up, and the loop goes on.
SleepReturns(c) ==
    /\ c \in active
    /\ pc[c] = "waiting"
    /\ IF is_async[c] /\ cancel_requested[c]
       THEN /\ pc' = [pc EXCEPT ![c] = "done"]
            /\ outcome' = [outcome EXCEPT ![c] = Error("CancelledError", 0, "cancel")]
            /\ attempt' = attempt
       ELSE /\ pc' = [pc EXCEPT ![c] = "attempting"]
            /\ attempt' = [attempt EXCEPT ![c] = @ + 1]
            /\ outcome' = outcome
    /\ UNCHANGED <<log_vars, web_vars, policy_vars, input_vars, calls, results, trace, last_exception,
                   wrapper_returned, func_got_logger, cancel_requested>>

Next ==
    \E c \in Calls :
        \/ CallWrapper(c)
        \/ Await(c)
        \/ \E o \in OpOutcomes : Invoke(c, o)
        \/ Cancel(c)
        \/ SleepReturns(c)

Spec == Init /\ [][Next]_vars

\* ------------------------------------------------- sync and async side by side
\* Call 1 wraps a synchronous operation and call 2 an asynchronous one, under
\* one policy and the same logger arguments; the asynchronous operation
\* repeats, invocation by invocation, what the synchronous one did.
InitSym ==
    /\ max_tries \in 1..MaxTries
    /\ delay_seconds \in 0..MaxDelay
    /\ backoff_factor \in 1..MaxBackoff
    /\ \E arg \in ExceptionArgs : exceptions_to_check = NormalizeExceptions(arg)
    /\ logger_provider \in BOOLEAN
    /\ active = {1, 2}
    /\ is_async = [c \in Calls |-> c = 2]
    /\ declares_logger = [c \in Calls |-> TRUE]
    /\ \E k \in {"absent", "explicit"} : logger_kw = [c \in Calls |-> k]
    /\ RetryIdle
    /\ LogIdle
    /\ AppDefault
    /\ WebIdle

Replay(c, d) ==
    /\ pc[d] = "done"
    /\ calls[c] < Len(results[d])
    /\ Invoke(c, results[d][calls[c] + 1])

NextSym ==
    \/ CallWrapper(1)
    \/ Await(1)
    \/ \E o \in OpOutcomes : Invoke(1, o)
    \/ SleepReturns(1)
    \/ pc[1] = "done" /\ CallWrapper(2)
    \/ Await(2)
    \/ Replay(2, 1)
    \/ SleepReturns(2)

SpecSym == InitSym /\ [][NextSym]_vars

\* ------------------------------------------------- two calls of one wrapper
\* Two calls of the wrapper of one operation are in flight at once, under
\* one policy: two tasks awaiting the wrapper of an asynchronous operation,
\* or two threads driving the wrapper of a synchronous one. Each call has its
\* own coroutine _retry_function, and so its own attempt, wait_time and
\* last_exception.
InitConc ==
    /\ max_tries \in 0..MaxTries
    /\ delay_seconds \in 0..MaxDelay
    /\ backoff_factor \in 1..MaxBackoff
    /\ \E arg \in ExceptionArgs : exceptions_to_check = NormalizeExceptions(arg)
    /\ logger_provider = FALSE
    /\ active = {1, 2}
    /\ \E a \in BOOLEAN : is_async = [c \in Calls |-> a]
    /\ declares_logger = [c \in Calls |-> FALSE]
    /\ logger_kw = [c \in Calls |-> "absent"]
    /\ RetryIdle
    /\ LogIdle
    /\ AppDefault
    /\ WebIdle

SpecConc == InitConc /\ [][Next]_vars

\* ------------------------------------------------------- request handling
\* RequestLoggingMiddleware.dispatch up to call_next: a new id (date and
\* uuid4), stored in the context variable and in request.state, the
\* request's logger bound to it, and the audit record of the arrival.
Dispatch(r) ==
    /\ req_pc[r] = "new"
    /\ LET request_id == next_uuid
           logger == bind_request_id(get_logger(None, request_id), request_id)
       IN
       /\ next_uuid' = next_uuid + 1
       /\ request_id_var' = [request_id_var EXCEPT ![r] = request_id]
       /\ state_request_id' = [state_request_id EXCEPT ![r] = request_id]
       /\ loggers' = [loggers EXCEPT ![r] = logger]
       /\ last_record' = Record(r, "state", TRUE, "HTTP Request Received", audit(logger, NoKwargs))
       /\ id_assignments' = [id_assignments EXCEPT ![r] = Append(@, request_id)]
       /\ last_set' = [last_set EXCEPT ![r] = request_id]
       /\ audit_records' = [audit_records EXCEPT ![r] =
                                Append(@, AuditRecord("HTTP Request Received", logger, FALSE, 0))]
    /\ state_has_logger' = [state_has_logger EXCEPT ![r] = TRUE]
    /\ req_pc' = [req_pc EXCEPT ![r] = "handling"]
    /\ UNCHANGED <<retry_vars, bind_calls, middleware_installed, route_raises, pure_vars,
                   setup_arg, path,
                   path_params, rc_request_id_var, dependency_ran, exc, exc_at, response,
                   obtained, error_records>>

\* The handler logs through request.state.logger.
LogThroughState(r, kind) ==
    /\ req_pc[r] = "handling"
    /\ last_record' = Record(r, "state", TRUE, "handler",
                  IF kind = "audit" THEN audit(loggers[r], NoKwargs) ELSE _log_domain(loggers[r], "info", NoKwargs))
    /\ UNCHANGED <<retry_vars, web_vars, req_pc, state_request_id, request_id_var, next_uuid,
                   loggers, bind_calls>>

\* Code called by the handler gets its own logger, get_logger(__name__), and
\* logs through it.
LogThroughGetLogger(r, kind) ==
    /\ req_pc[r] = "handling"
    /\ LET logger == get_logger(None, request_id_var[r]) IN
       last_record' = Record(r, "get_logger", TRUE, "handler",
                  IF kind = "audit" THEN audit(logger, NoKwargs) ELSE _log_domain(logger, "info", NoKwargs))
    /\ UNCHANGED <<retry_vars, web_vars, req_pc, state_request_id, request_id_var, next_uuid,
                   loggers, bind_calls>>

\* The handler binds its module's logger to the request:
\* logger.bind_request_id(request.state.request_id).
BindModuleLogger(r) ==
    /\ req_pc[r] = "handling"
    /\ [by |-> r, request_id |-> state_request_id[r]] \notin bind_calls
    /\ loggers' = [loggers EXCEPT ![0] = bind_request_id(@, state_request_id[r])]
    /\ bind_calls' = bind_calls \cup {[by |-> r, request_id |-> state_request_id[r]]}
    /\ UNCHANGED <<retry_vars, web_vars, req_pc, state_request_id, request_id_var, next_uuid,
                   last_record>>

\* The handler logs through its module's logger.
LogThroughModuleLogger(r, kind) ==
    /\ req_pc[r] = "handling"
    /\ last_record' = Record(r, "module", \E b \in bind_calls : b.by = r, "handler",
                  IF kind = "audit" THEN audit(loggers[0], NoKwargs) ELSE _log_domain(loggers[0], "info", NoKwargs))
    /\ UNCHANGED <<retry_vars, web_vars, req_pc, state_request_id, request_id_var, next_uuid,
                   loggers, bind_calls>>

\* RequestLoggingMiddleware.dispatch after call_next returned: the audit
\* record of the completion.
Complete(r) ==
    /\ req_pc[r] = "handling"
    /\ req_pc' = [req_pc EXCEPT ![r] = "done"]
    /\ last_record' = Record(r, "state", TRUE, "HTTP Request Completed", audit(loggers[r], NoKwargs))
    /\ audit_records' = [audit_records EXCEPT ![r] =
          Append(@, AuditRecord("HTTP Request Completed", loggers[r], TRUE, response[r].status))]
    /\ UNCHANGED <<retry_vars, state_request_id, request_id_var, next_uuid, loggers,
                   bind_calls, middleware_installed, route_raises, path, path_params,
                   rc_request_id_var, state_has_logger, dependency_ran, exc, exc_at, response,
                   id_assignments, last_set, obtained, error_records, setup_arg, pure_vars>>

\* The retry decorator is not in use while requests are logged.
InitLog ==
    /\ max_tries = 1
    /\ delay_seconds = 0
    /\ backoff_factor = 1
    /\ exceptions_to_check = <<"Exception">>
    /\ logger_provider = FALSE
    /\ active = {}
    /\ is_async = [c \in Calls |-> FALSE]
    /\ declares_logger = [c \in Calls |-> FALSE]
    /\ logger_kw = [c \in Calls |-> "absent"]
    /\ RetryIdle
    /\ LogIdle
    /\ AppDefault
    /\ WebIdle

NextLog ==
    \E r \in Requests :
        \/ Dispatch(r)
        \/ \E kind \in {"domain", "audit"} : LogThroughState(r, kind)
        \/ \E kind \in {"domain", "audit"} : LogThroughGetLogger(r, kind)
        \/ BindModuleLogger(r)
        \/ \E kind \in {"domain", "audit"} : LogThroughModuleLogger(r, kind)
        \/ Complete(r)

SpecLog == InitLog /\ [][NextLog]_vars

\* ------------------------------------------------------------ log calls
\* Module code makes a logger, get_logger(name) or get_logger(name, id).
GetLogger(l, request_id) ==
    /\ loggers' = [loggers EXCEPT ![l] = get_logger(request_id, None)]
    /\ UNCHANGED <<retry_vars, web_vars, req_pc, state_request_id, request_id_var, next_uuid,
                   last_record, bind_calls>>

\* Business code calls logger.<method>(message, **kwargs) on a logger it holds.
LogCall(l, method, kwargs) ==
    /\ last_record' = Record(0, "module", FALSE, "message",
                  IF method = "audit" THEN audit(loggers[l], kwargs)
                  ELSE _log_domain(loggers[l], method, kwargs))
    /\ UNCHANGED <<retry_vars, web_vars, req_pc, state_request_id, request_id_var, next_uuid,
                   loggers, bind_calls>>

NextCall ==
    \E l \in LoggerNames :
        \/ \E request_id \in {None} \cup Requests : GetLogger(l, request_id)
        \/ \E method \in Methods, kwargs \in KwargSets : LogCall(l, method, kwargs)

SpecCall == InitLog /\ [][NextCall]_vars

\* ------------------------------------------------------- request-entry setups
\* The paths of the routes, and the value a client puts in {requestId}.
REQUEST_ID_ENDPOINTS == {"/request"}
NON_REQUEST_ID_ENDPOINTS == {"/token", "/healthcheck"}
Paths == {"/request", "/token", "/ocr", "/classify/{requestId}"}
PathIds == {-1}

\* request.path_params.get("requestId")
PathParamsOf(p) == IF p = "/classify/{requestId}" THEN PathIds ELSE {None}

\* (a setup that prefers the {requestId} of the path to its argument)
SetupPathParamFirst(p, params, request_id, fresh) ==
    IF p \in NON_REQUEST_ID_ENDPOINTS
    THEN [stores |-> FALSE, request_id |-> None, generated |-> FALSE]
    ELSE IF params # None
    THEN [stores |-> TRUE, request_id |-> params, generated |-> FALSE]
    ELSE IF request_id # None
    THEN [stores |-> TRUE, request_id |-> request_id, generated |-> FALSE]
    ELSE [stores |-> TRUE, request_id |-> fresh, generated |-> TRUE]

\* RequestContext.setup_request_context(request, request_id) for a request to
\* path p with path parameter params, where fresh is what generate_request_id
\* would return: whether an id is stored, which, and whether it was generated.
setup_request_context(p, params, request_id, fresh) ==
    IF p \in NON_REQUEST_ID_ENDPOINTS
    THEN [stores |-> FALSE, request_id |-> None, generated |-> FALSE]
    ELSE IF request_id # None
    THEN [stores |-> TRUE, request_id |-> request_id, generated |-> FALSE]
    ELSE IF p \in REQUEST_ID_ENDPOINTS
    THEN [stores |-> TRUE, request_id |-> fresh, generated |-> TRUE]
    ELSE IF params # None
    THEN [stores |-> TRUE, request_id |-> params, generated |-> FALSE]
    ELSE [stores |-> TRUE, request_id |-> fresh, generated |-> TRUE]

\* A request reaches the router of an application without the middleware.
Arrive(r) ==
    /\ req_pc[r] = "new"
    /\ req_pc' = [req_pc EXCEPT ![r] = "handling"]
    /\ UNCHANGED <<retry_vars, web_vars, state_request_id, request_id_var, next_uuid, loggers,
                   last_record, bind_calls>>

\* The dependency process_request_logging: request.state.request_id gets a
\* uuid4 when it has none, setup_request_context(request) runs, and
\* request_context.request_id_var is set to request.state.request_id. The
\* request's logger is get_logger(...), bound to the id when one is stored.
\* (request_context.request_id_var is written here and read nowhere.)
process_request_logging(r) ==
    /\ req_pc[r] = "handling"
    /\ ~dependency_ran[r]
    /\ response[r] = NoResponse
    /\ LET has_id == state_request_id[r] # None
           id0 == IF has_id THEN state_request_id[r] ELSE next_uuid
           uuid1 == IF has_id THEN next_uuid ELSE next_uuid + 1
           assigned0 == IF has_id THEN id_assignments[r] ELSE Append(id_assignments[r], id0)
           setup == setup_request_context(path[r], path_params[r], None, uuid1)
           id1 == IF setup.stores THEN setup.request_id ELSE id0
           logger == get_logger(None, request_id_var[r])
       IN
       /\ state_request_id' = [state_request_id EXCEPT ![r] = id1]
       /\ id_assignments' = [id_assignments EXCEPT ![r] =
                                IF setup.stores THEN Append(assigned0, id1) ELSE assigned0]
       /\ next_uuid' = IF setup.generated THEN uuid1 + 1 ELSE uuid1
       /\ rc_request_id_var' = [rc_request_id_var EXCEPT ![r] = id1]
       /\ last_set' = [last_set EXCEPT ![r] = id1]
       /\ loggers' = [loggers EXCEPT ![r] =
                         IF setup.stores THEN bind_request_id(logger, id1) ELSE logger]
    /\ state_has_logger' = [state_has_logger EXCEPT ![r] = TRUE]
    /\ dependency_ran' = [dependency_ran EXCEPT ![r] = TRUE]
    /\ setup_arg' = [setup_arg EXCEPT ![r] = CalledWith(None)]
    /\ UNCHANGED <<retry_vars, req_pc, request_id_var, last_record, bind_calls,
                   middleware_installed, route_raises, pure_vars, audit_records, path,
                   path_params, exc, exc_at,
                   response, obtained, error_records>>

\* The dependency process_request_with_id_from_path: with a {requestId} in
\* the path, setup_request_context(request, request_id); nothing without.
process_request_with_id_from_path(r) ==
    /\ req_pc[r] = "handling"
    /\ ~dependency_ran[r]
    /\ response[r] = NoResponse
    /\ LET setup == setup_request_context(path[r], path_params[r], path_params[r], next_uuid)
           stores == path_params[r] # None /\ setup.stores
           logger == get_logger(None, request_id_var[r])
       IN
       /\ state_request_id' = [state_request_id EXCEPT ![r] =
                                  IF stores THEN setup.request_id ELSE @]
       /\ id_assignments' = [id_assignments EXCEPT ![r] =
                                IF stores THEN Append(@, setup.request_id) ELSE @]
       /\ rc_request_id_var' = [rc_request_id_var EXCEPT ![r] =
                                   IF stores THEN setup.request_id ELSE @]
       /\ last_set' = [last_set EXCEPT ![r] = IF stores THEN setup.request_id ELSE @]
       /\ loggers' = [loggers EXCEPT ![r] =
                         IF path_params[r] = None THEN @
                         ELSE IF stores THEN bind_request_id(logger, setup.request_id)
                         ELSE logger]
       /\ state_has_logger' = [state_has_logger EXCEPT ![r] = @ \/ path_params[r] # None]
    /\ setup_arg' = [setup_arg EXCEPT ![r] =
                        IF path_params[r] # None THEN CalledWith(path_params[r]) ELSE @]
    /\ dependency_ran' = [dependency_ran EXCEPT ![r] = TRUE]
    /\ UNCHANGED <<retry_vars, req_pc, request_id_var, next_uuid, last_record, bind_calls,
                   middleware_installed, route_raises, pure_vars, audit_records, path,
                   path_params, exc, exc_at,
                   response, obtained, error_records>>

\* The request_id a caller passes to process_request_with_id: an id of its
\* own, or the empty string.
Empty == -3
ExplicitIds == {-2, Empty}

\* The dependency process_request_with_id(request, request_id):
\* setup_request_context(request, request_id), whatever the path.
process_request_with_id(r, request_id) ==
    /\ req_pc[r] = "handling"
    /\ ~dependency_ran[r]
    /\ response[r] = NoResponse
    /\ LET setup == setup_request_context(path[r], path_params[r], request_id, next_uuid)
           logger == get_logger(None, request_id_var[r])
       IN
       /\ state_request_id' = [state_request_id EXCEPT ![r] =
                                  IF setup.stores THEN setup.request_id ELSE @]
       /\ id_assignments' = [id_assignments EXCEPT ![r] =
                                IF setup.stores THEN Append(@, setup.request_id) ELSE @]
       /\ rc_request_id_var' = [rc_request_id_var EXCEPT ![r] =
                                   IF setup.stores THEN setup.request_id ELSE @]
       /\ last_set' = [last_set EXCEPT ![r] = IF setup.stores THEN setup.request_id ELSE @]
       /\ next_uuid' = IF setup.generated THEN next_uuid + 1 ELSE next_uuid
       /\ loggers' = [loggers EXCEPT ![r] =
                         IF setup.stores THEN bind_request_id(logger, setup.request_id)
                         ELSE logger]
    /\ state_has_logger' = [state_has_logger EXCEPT ![r] = TRUE]
    /\ dependency_ran' = [dependency_ran EXCEPT ![r] = TRUE]
    /\ setup_arg' = [setup_arg EXCEPT ![r] = CalledWith(request_id)]
    /\ UNCHANGED <<retry_vars, req_pc, request_id_var, last_record, bind_calls,
                   middleware_installed, route_raises, pure_vars, audit_records, path,
                   path_params, exc, exc_at, response, obtained, error_records>>

\* Code of the request calls get_logger(name) with no request_id.
GetLoggerInRequest(r) ==
    /\ req_pc[r] = "handling"
    /\ response[r] = NoResponse
    /\ obtained' = [obtained EXCEPT ![r] =
                       [logger |-> get_logger(None, request_id_var[r]),
                        ambient |-> last_set[r], got |-> TRUE]]
    /\ UNCHANGED <<retry_vars, log_vars, middleware_installed, route_raises, audit_records,
                   setup_arg, pure_vars, path,
                   path_params, rc_request_id_var, state_has_logger, dependency_ran, exc,
                   exc_at, response, id_assignments, last_set, error_records>>

\* The route's handler returns its value: a 200 response with a JSON body.
HandlerReturns(r) ==
    /\ req_pc[r] = "handling"
    /\ response[r] = NoResponse
    /\ exc[r] = NoExc
    /\ route_raises = NoExc
    /\ response' = [response EXCEPT ![r] =
                       Response("handler", 200, "json", {"status"}, 0, "", <<>>)]
    /\ UNCHANGED <<retry_vars, log_vars, middleware_installed, route_raises, audit_records,
                   setup_arg, pure_vars, path,
                   path_params, rc_request_id_var, state_has_logger, dependency_ran, exc,
                   exc_at, id_assignments, last_set, obtained, error_records>>

\* The response leaves an application without the middleware.
Finish(r) ==
    /\ req_pc[r] = "handling"
    /\ response[r] # NoResponse
    /\ req_pc' = [req_pc EXCEPT ![r] = "done"]
    /\ UNCHANGED <<retry_vars, web_vars, state_request_id, request_id_var, next_uuid, loggers,
                   last_record, bind_calls>>

\* Requests to any of the paths, through an application with or without the
\* middleware in front of the dependencies.
InitCtx ==
    /\ max_tries = 1
    /\ delay_seconds = 0
    /\ backoff_factor = 1
    /\ exceptions_to_check = <<"Exception">>
    /\ logger_provider = FALSE
    /\ active = {}
    /\ is_async = [c \in Calls |-> FALSE]
    /\ declares_logger = [c \in Calls |-> FALSE]
    /\ logger_kw = [c \in Calls |-> "absent"]
    /\ RetryIdle
    /\ LogIdle
    /\ middleware_installed \in BOOLEAN
    /\ route_raises = NoExc
    /\ path \in [Requests -> Paths]
    /\ path_params \in [Requests -> PathIds \cup {None}]
    /\ \A r \in Requests : path_params[r] \in PathParamsOf(path[r])
    /\ RequestsIdle

NextCtx ==
    \E r \in Requests :
        \/ middleware_installed /\ Dispatch(r)
        \/ ~middleware_installed /\ Arrive(r)
        \/ process_request_logging(r)
        \/ process_request_with_id_from_path(r)
        \/ GetLoggerInRequest(r)
        \/ HandlerReturns(r)
        \/ middleware_installed /\ response[r] # NoResponse /\ Complete(r)
        \/ ~middleware_installed /\ Finish(r)

SpecCtx == InitCtx /\ [][NextCtx]_vars

\* The dependencies alone: each request goes through one of them, behind the
\* middleware or not.
NextSetup ==
    \E r \in Requests :
        \/ middleware_installed /\ Dispatch(r)
        \/ ~middleware_installed /\ Arrive(r)
        \/ process_request_logging(r)
        \/ process_request_with_id_from_path(r)
        \/ \E request_id \in ExplicitIds : process_request_with_id(r, request_id)

SpecSetup == InitCtx /\ [][NextSetup]_vars

\* ------------------------------------------------------- exception classes
\* common/exceptions/pnc_exceptions.py
PncClasses == {"PncException", "OcrException", "ClassificationException", "VolumeException"}
\* the subclass the handlers and routers import from there
RequestStoreException == "RequestStoreException"
DomainClasses == PncClasses \cup {RequestStoreException}

\* status codes handlers pass, inside and outside 100..599
StatusCodes == {-1, 55, 100, 422, 599, 666}
Messages == {"X failed", ""}

\* the default of __init__'s status_code
DefaultStatusCode(cls) == IF cls = "PncException" THEN 500 ELSE 422

\* PncException.__init__ (and the subclasses' through super().__init__):
\* self.message = message; self.status_code = status_code
PncException(cls, message, status_code) == Exc(cls, message, TRUE, status_code)

\* Error(code, message): an integer code outside 100..599 is a ValueError;
\* the object holds code and message.
ErrorObject(code, message) ==
    IF code \in 100..599
    THEN [raised |-> "", code |-> code, message |-> message]
    ELSE [raised |-> "ValueError", code |-> 0, message |-> "Invalid HTTP status code"]

\* Error.to_dict, Error.to_response: JSONResponse(status_code=code,
\* content={"code": code, "message": message})
to_response(error, by) ==
    Response(by, error.code, "json", {"code", "message"}, error.code, error.message, <<>>)

\* One entry of RequestValidationError.errors()
ValidationErrors ==
    { <<>>,
      << [loc |-> <<>>, msg |-> "General error"] >>,
      << [loc |-> <<"body", "name">>, msg |-> "Field required"],
         [loc |-> <<"body", "field">>, msg |-> ""] >> }
RequestValidationError(errors) ==
    [Exc("RequestValidationError", "", FALSE, 0) EXCEPT !.errors = errors]

\* RequestStoreException(message, status_code = 422): a PncException whose
\* code is checked when it is constructed; with a code outside 100..599 the
\* ValueError is what the raise statement raises.
RequestStoreExceptionInit(message, status_code) ==
    IF status_code \in 100..599
    THEN Exc(RequestStoreException, message, TRUE, status_code)
    ELSE Exc("ValueError", "Invalid HTTP status code", FALSE, 0)

\* raise cls(message, status_code)
Raise(cls, message, status_code) ==
    IF cls = RequestStoreException THEN RequestStoreExceptionInit(message, status_code)
    ELSE PncException(cls, message, status_code)

\* What a route raises: a domain error with a declared status, an exception
\* of another class with or without a status_code attribute, an
\* HTTPException, or (before the handler runs) a RequestValidationError.
RouteExceptions ==
    { Raise(cls, m, s) : cls \in DomainClasses, m \in Messages, s \in StatusCodes }
    \cup { Raise(cls, "X failed", DefaultStatusCode(cls)) : cls \in DomainClasses }
    \cup { Exc("ValueError", "Generic test error", FALSE, 0) }
    \cup { Exc("ValueError", "Custom status error", TRUE, s) : s \in StatusCodes \cup {418} }
    \cup { Exc("HTTPException", "Item not found", TRUE, 404) }
    \cup { RequestValidationError(errors) : errors \in ValidationErrors }

\* The classes no registered or built-in handler of ExceptionMiddleware takes:
\* the handler registered for Exception runs in ServerErrorMiddleware,
\* outside every user middleware.
IsUnclassified(e) ==
    e.cls \notin DomainClasses \cup {"HTTPException", "RequestValidationError"}

\* An error-level record of a request's error: who logged it, the fields
\* error, status_code (when passed) and exception_type, and the exception
\* it is about
ErrorRecord(by, e, has_status_code, status_code) ==
    [by |-> by, error |-> e.message, has_status_code |-> has_status_code,
     status_code |-> status_code, exception_type |-> e.cls, exc |-> e]

\* (a log_exception that always takes the module's logger)
ReqLoggerFallbackOnly(r) == loggers[0]

\* getattr(request.state, "logger", logger)
ReqLogger(r) == IF state_has_logger[r] THEN loggers[r] ELSE loggers[0]

\* ------------------------------------------------------- errors to responses
\* The route raises: the handler's raise statement, or the validation of the
\* request before the handler is called.
RouteRaises(r) ==
    /\ req_pc[r] = "handling"
    /\ response[r] = NoResponse
    /\ exc[r] = NoExc
    /\ exc_at[r] = ""
    /\ route_raises # NoExc
    /\ exc' = [exc EXCEPT ![r] = route_raises]
    /\ exc_at' = [exc_at EXCEPT ![r] = "route"]
    /\ UNCHANGED <<retry_vars, log_vars, middleware_installed, route_raises, audit_records,
                   setup_arg, pure_vars, path,
                   path_params, rc_request_id_var, state_has_logger, dependency_ran,
                   response, id_assignments, last_set, obtained, error_records>>

\* RequestContext.on_request_error(request, error), called where the handler
\* catches its error before raising it further; it reads
\* request.state.request_id.
on_request_error(r) ==
    /\ exc_at[r] = "route"
    /\ exc[r].cls # "RequestValidationError"
    /\ state_request_id[r] # None
    /\ \A i \in DOMAIN error_records[r] : error_records[r][i].by # "on_request_error"
    /\ LET logger == bind_request_id(get_logger(None, request_id_var[r]), state_request_id[r]) IN
       last_record' = Record(r, "get_logger", TRUE, "Request processing failed",
                             _log_domain(logger, "error", {"error", "exception_type"}))
    /\ error_records' = [error_records EXCEPT ![r] =
                            Append(@, ErrorRecord("on_request_error", exc[r], FALSE, 0))]
    /\ UNCHANGED <<retry_vars, req_pc, state_request_id, request_id_var, next_uuid, loggers,
                   bind_calls, middleware_installed, route_raises, audit_records, setup_arg,
                   pure_vars, path, path_params,
                   rc_request_id_var, state_has_logger, dependency_ran, exc, exc_at,
                   response, id_assignments, last_set, obtained>>

\* log_exception(request, exc, status_code): the log call it makes
log_exception(r, status_code) ==
    /\ last_record' = Record(r, IF state_has_logger[r] THEN "state" ELSE "module",
                             state_has_logger[r], "Request failed",
                             _log_domain(ReqLogger(r), "error",
                                         {"error", "status_code", "exception_type"}))
    /\ error_records' = [error_records EXCEPT ![r] =
                            Append(@, ErrorRecord("log_exception", exc[r], TRUE, status_code))]

\* The handlers registered for PncException, OcrException,
\* ClassificationException, VolumeException and RequestStoreException:
\* log_exception(request, exc, exc.status_code), then
\* Error(exc.status_code, exc.message).to_response(). An error of Error(...)
\* leaves the handler and ExceptionMiddleware.
pnc_exception_handler(r) ==
    /\ exc_at[r] = "route"
    /\ exc[r].cls \in DomainClasses
    /\ log_exception(r, exc[r].status_code)
    /\ LET error == ErrorObject(exc[r].status_code, exc[r].message) IN
       IF error.raised = ""
       THEN /\ response' = [response EXCEPT ![r] = to_response(error, "pnc_exception_handler")]
            /\ exc' = [exc EXCEPT ![r] = NoExc]
            /\ exc_at' = [exc_at EXCEPT ![r] = ""]
       ELSE /\ response' = response
            /\ exc' = [exc EXCEPT ![r] = Exc(error.raised, error.message, FALSE, 0)]
            /\ exc_at' = [exc_at EXCEPT ![r] = "escaped"]
    /\ UNCHANGED <<retry_vars, req_pc, state_request_id, request_id_var, next_uuid, loggers,
                   bind_calls, middleware_installed, route_raises, audit_records, setup_arg,
                   pure_vars, path, path_params,
                   rc_request_id_var, state_has_logger, dependency_ran, id_assignments,
                   last_set, obtained>>

\* No handler is registered for HTTPException or RequestValidationError: the
\* framework's own handlers answer, {"detail": exc.detail} with the
\* exception's status and {"detail": exc.errors()} with 422, and log nothing.
FrameworkHandler(r) ==
    /\ exc_at[r] = "route"
    /\ exc[r].cls \in {"HTTPException", "RequestValidationError"}
    /\ response' = [response EXCEPT ![r] =
          IF exc[r].cls = "HTTPException"
          THEN Response("http_exception_handler", exc[r].status_code, "json", {"detail"},
                        0, "", <<exc[r].message>>)
          ELSE Response("request_validation_exception_handler", 422, "json", {"detail"},
                        0, "", <<>>)]
    /\ exc' = [exc EXCEPT ![r] = NoExc]
    /\ exc_at' = [exc_at EXCEPT ![r] = ""]
    /\ UNCHANGED <<retry_vars, log_vars, middleware_installed, route_raises, audit_records,
                   setup_arg, pure_vars, path,
                   path_params, rc_request_id_var, state_has_logger, dependency_ran,
                   id_assignments, last_set, obtained, error_records>>

\* The exception has left ExceptionMiddleware: no handler there took it, or
\* a handler raised.
Escapes(r) ==
    \/ exc_at[r] = "escaped"
    \/ exc_at[r] = "route" /\ IsUnclassified(exc[r])

\* RequestLoggingMiddleware.dispatch when call_next raises: the error record,
\* Response("Internal Server Error", 500), and in finally the audit record
\* of the completion.
DispatchCatches(r) ==
    /\ middleware_installed
    /\ req_pc[r] = "handling"
    /\ Escapes(r)
    /\ error_records' = [error_records EXCEPT ![r] =
                            Append(@, ErrorRecord("dispatch", exc[r], FALSE, 0))]
    /\ response' = [response EXCEPT ![r] =
                       Response("dispatch", 500, "text", {}, 0, "Internal Server Error", <<>>)]
    /\ last_record' = Record(r, "state", TRUE, "HTTP Request Completed",
                             audit(loggers[r], {"status_code"}))
    /\ audit_records' = [audit_records EXCEPT ![r] =
          Append(@, AuditRecord("HTTP Request Completed", loggers[r], TRUE, 500))]
    /\ exc' = [exc EXCEPT ![r] = NoExc]
    /\ exc_at' = [exc_at EXCEPT ![r] = ""]
    /\ req_pc' = [req_pc EXCEPT ![r] = "done"]
    /\ UNCHANGED <<retry_vars, state_request_id, request_id_var, next_uuid, loggers,
                   bind_calls, middleware_installed, route_raises, pure_vars, setup_arg, path,
                   path_params,
                   rc_request_id_var, state_has_logger, dependency_ran, id_assignments,
                   last_set, obtained>>

\* (a handler that answers every unclassified error with 500)
GenericStatusAlways500(e) == 500

\* getattr(exc, "status_code", 500)
GenericStatus(e) == IF e.has_status_code THEN e.status_code ELSE 500

\* generic_exception_handler, the handler registered for Exception, in an
\* application without the middleware: log_exception(request, exc, 500), then
\* Error(getattr(exc, "status_code", 500), str(exc)).to_response(). When
\* Error(...) raises, the application has no response and the server sends
\* its own plain 500.
generic_exception_handler(r) ==
    /\ ~middleware_installed
    /\ req_pc[r] = "handling"
    /\ Escapes(r)
    /\ log_exception(r, 500)
    /\ LET error == ErrorObject(GenericStatus(exc[r]), exc[r].message) IN
       response' = [response EXCEPT ![r] =
          IF error.raised = "" THEN to_response(error, "generic_exception_handler")
          ELSE Response("server", 500, "text", {}, 0, "Internal Server Error", <<>>)]
    /\ exc' = [exc EXCEPT ![r] = NoExc]
    /\ exc_at' = [exc_at EXCEPT ![r] = ""]
    /\ UNCHANGED <<retry_vars, req_pc, state_request_id, request_id_var, next_uuid, loggers,
                   bind_calls, middleware_installed, route_raises, audit_records, setup_arg,
                   pure_vars, path, path_params,
                   rc_request_id_var, state_has_logger, dependency_ran, id_assignments,
                   last_set, obtained>>

\* Requests to one route of an application with the exception handlers,
\* with or without the middleware.
InitErr ==
    /\ max_tries = 1
    /\ delay_seconds = 0
    /\ backoff_factor = 1
    /\ exceptions_to_check = <<"Exception">>
    /\ logger_provider = FALSE
    /\ active = {}
    /\ is_async = [c \in Calls |-> FALSE]
    /\ declares_logger = [c \in Calls |-> FALSE]
    /\ logger_kw = [c \in Calls |-> "absent"]
    /\ RetryIdle
    /\ LogIdle
    /\ middleware_installed \in BOOLEAN
    /\ route_raises \in RouteExceptions \cup {NoExc}
    /\ WebIdle

NextErr ==
    \E r \in Requests :
        \/ middleware_installed /\ Dispatch(r)
        \/ ~middleware_installed /\ Arrive(r)
        \/ HandlerReturns(r)
        \/ RouteRaises(r)
        \/ on_request_error(r)
        \/ pnc_exception_handler(r)
        \/ FrameworkHandler(r)
        \/ DispatchCatches(r)
        \/ generic_exception_handler(r)
        \/ middleware_installed /\ response[r] # NoResponse /\ Complete(r)
        \/ ~middleware_installed /\ Finish(r)

SpecErr == InitErr /\ [][NextErr]_vars

\* ------------------------------------------------------- dispatch, cancelled
\* The task running dispatch is cancelled while it awaits call_next:
\* CancelledError is a BaseException, so except Exception does not take it
\* and status_code is never assigned; the finally block evaluates
\* status_code=status_code for the audit call, which raises
\* UnboundLocalError before the call is made. dispatch ends with that error
\* and no response.
DispatchCancelled(r) ==
    /\ middleware_installed
    /\ req_pc[r] = "handling"
    /\ response[r] = NoResponse
    /\ exc_at[r] \in {"", "route"}
    /\ exc' = [exc EXCEPT ![r] = Exc("UnboundLocalError", "status_code", FALSE, 0)]
    /\ exc_at' = [exc_at EXCEPT ![r] = "server"]
    /\ req_pc' = [req_pc EXCEPT ![r] = "done"]
    /\ UNCHANGED <<retry_vars, state_request_id, request_id_var, next_uuid, loggers,
                   last_record, bind_calls, middleware_installed, route_raises, path,
                   path_params, rc_request_id_var, state_has_logger, dependency_ran,
                   response, id_assignments, last_set, obtained, error_records,
                   audit_records, setup_arg, pure_vars>>

NextDispatch ==
    \/ NextErr
    \/ \E r \in Requests : DispatchCancelled(r)

SpecDispatch == InitErr /\ [][NextDispatch]_vars

\* ------------------------------------------------------- shipping of records
MaxEmits == 2

\* What self.format(record) yields: a string holding a JSON object, a JSON
\* array or a JSON scalar (a number, a string, null), a string that is not
\* JSON, a value that is not a string (a dict), or an error of the formatter.
FormatOutcomes == {"json_object", "json_array", "json_scalar", "text", "dict", "raises"}

\* What self.session.post(...) does: a response with a status, or an error
\* of requests (no connection, timeout after 5 seconds).
Responded(status_code) == [raises |-> "", status_code |-> status_code]
PostRaises(cls) == [raises |-> cls, status_code |-> 0]
PostOutcomes ==
    { Responded(202), Responded(399), Responded(400), Responded(500),
      PostRaises("ConnectionError"), PostRaises("Timeout") }

\* log_entry = self.format(record)
Format(f) ==
    IF f = "raises" THEN [raised |-> "ValueError", entry |-> ""]
    ELSE [raised |-> "", entry |-> f]

\* log_data: json.loads(log_entry) for a string, {"message": log_entry} when
\* that raises JSONDecodeError, log_entry itself when it is not a string
Decode(entry) ==
    CASE entry = "json_object" -> "dict"
      [] entry = "json_array"  -> "list"
      [] entry = "json_scalar" -> "scalar"
      [] entry = "text"        -> "dict"
      [] OTHER                 -> "dict"

\* log_data["ddsource"] = ...: item assignment with a string key is a
\* TypeError on everything but a dict
AddMetadata(data) == IF data = "dict" THEN "" ELSE "TypeError"

\* One call of emit: what the formatter yielded, the kind of log_data, whether
\* the record was posted and with which status, the error that left emit
\* and what was printed.
EmitResult(format, data, posted, status_code, raised, printed) ==
    [format |-> format, data |-> data, posted |-> posted, status_code |-> status_code,
     raised |-> raised, printed |-> printed]

\* (an emit without the enclosing try: the error leaves emit)
EmitUnguarded(f, p) ==
    LET formatted == Format(f)
        data == Decode(formatted.entry)
    IN  IF formatted.raised # "" THEN EmitResult(f, "", FALSE, 0, formatted.raised, "")
        ELSE IF AddMetadata(data) # "" THEN EmitResult(f, data, FALSE, 0, AddMetadata(data), "")
        ELSE IF p.raises # "" THEN EmitResult(f, data, FALSE, 0, p.raises, "")
        ELSE EmitResult(f, data, TRUE, p.status_code, "",
                        IF p.status_code >= 400 THEN "Datadog API error" ELSE "")

\* DatadogHttpHandler.emit(record): format, decode, add the metadata, post;
\* except Exception around all of it prints the failure.
emit(f, p) ==
    LET formatted == Format(f)
        data == Decode(formatted.entry)
        failed(cls, d) ==
            IF IsSubclass(cls, "Exception")
            THEN EmitResult(f, d, FALSE, 0, "", "Failed to send logs to Datadog")
            ELSE EmitResult(f, d, FALSE, 0, cls, "")
    IN  IF formatted.raised # "" THEN failed(formatted.raised, "")
        ELSE IF AddMetadata(data) # "" THEN failed(AddMetadata(data), data)
        ELSE IF p.raises # "" THEN failed(p.raises, data)
        ELSE EmitResult(f, data, TRUE, p.status_code, "",
                        IF p.status_code >= 400 THEN "Datadog API error" ELSE "")

\* A logging call hands a record to the handler.
Emit(f, p) ==
    /\ Len(emit_log) < MaxEmits
    /\ emit_log' = Append(emit_log, emit(f, p))
    /\ UNCHANGED <<retry_vars, log_vars, middleware_installed, route_raises, path,
                   path_params, rc_request_id_var, state_has_logger, dependency_ran, exc,
                   exc_at, response, id_assignments, last_set, obtained, error_records,
                   audit_records, setup_arg, caller_info_cache, caller_lookup>>

NextEmit == \E f \in FormatOutcomes, p \in PostOutcomes : Emit(f, p)

SpecEmit == InitLog /\ [][NextEmit]_vars

\* ------------------------------------------------------- caller lookup
MaxDepth == 2

\* A frame of the call stack: the module inspect.getmodule finds for it ("" when
\* it finds none), the name of its code object, its current line, and
\* whether it is a frame of CustomLogger.
Frame(module, func_name, lineno, own) ==
    [module |-> module, func_name |-> func_name, lineno |-> lineno, own |-> own]

\* The frames of application code that call a level method.
AppFrames ==
    { Frame("app.routers.items", "create_item", 28, FALSE),
      Frame("common.exceptions.handlers", "log_exception", 16, FALSE),
      Frame("", "<module>", 1, FALSE) }

RECURSIVE SeqsUpTo(_, _)
SeqsUpTo(S, n) ==
    IF n = 0 THEN {<<>>}
    ELSE SeqsUpTo(S, n - 1) \cup { Append(q, x) : q \in SeqsUpTo(S, n - 1), x \in S }

\* The application frames below a log call, outermost first; none when the
\* level method is entered from code that has no Python frame.
AppStacks == SeqsUpTo(AppFrames, MaxDepth)

\* The stack inside _get_caller_info, outermost first: the application's
\* frames, then the level method, _log_domain and _get_caller_info itself.
StackOf(app_stack, method) ==
    app_stack \o << Frame("common.logging.custom_logger", method, 304, TRUE),
                    Frame("common.logging.custom_logger", "_log_domain", 289, TRUE),
                    Frame("common.logging.custom_logger", "_get_caller_info", 222, TRUE) >>

\* CustomLogger._default_caller_info
_default_caller_info == [module |-> "unknown", func_name |-> "unknown", lineno |-> 0]

\* cache_key = (id(frame.f_code), frame.f_lineno)
CacheKey(frame) == <<frame.module, frame.func_name, frame.lineno>>

\* module.__name__ if module else "unknown"; frame.f_code.co_name; frame.f_lineno
InfoOf(frame) ==
    [module |-> IF frame.module = "" THEN "unknown" ELSE frame.module,
     func_name |-> frame.func_name, lineno |-> frame.lineno]

\* (a lookup that stops one frame short, at the level method)
GetCallerInfoTwoHops(stack, has_currentframe, cache) ==
    LET i == Len(stack) - 2 IN
    IF ~has_currentframe \/ i < 1 THEN [info |-> _default_caller_info, cache |-> cache]
    ELSE [info |-> InfoOf(stack[i]),
          cache |-> cache \cup {[key |-> CacheKey(stack[i]), info |-> InfoOf(stack[i])]}]

\* CustomLogger._get_caller_info with the given stack and cache:
\* inspect.currentframe() (None where the interpreter has no frame support),
\* three times f_back, each of them possibly None, then the cached entry of
\* the frame or a new one. Yields the info and the cache after the call.
_get_caller_info(stack, has_currentframe, cache) ==
    LET i == Len(stack) - 3 IN
    IF ~has_currentframe \/ i < 1 THEN [info |-> _default_caller_info, cache |-> cache]
    ELSE IF \E e \in cache : e.key = CacheKey(stack[i])
    THEN [info |-> (CHOOSE e \in cache : e.key = CacheKey(stack[i])).info, cache |-> cache]
    ELSE [info |-> InfoOf(stack[i]),
          cache |-> cache \cup {[key |-> CacheKey(stack[i]), info |-> InfoOf(stack[i])]}]

\* Application code calls a level method of the module's logger:
\* _log_domain gets the caller info and logs with it.
LogDomainFrom(app_stack, method, has_currentframe) ==
    LET stack == StackOf(app_stack, method)
        found == _get_caller_info(stack, has_currentframe, caller_info_cache)
        rec == _log_domain(loggers[0], method, NoKwargs)
    IN
    /\ caller_info_cache' = found.cache
    /\ caller_lookup' = [stack |-> stack, has_currentframe |-> has_currentframe,
                         info |-> found.info, raised |-> rec.raised, completed |-> TRUE]
    /\ last_record' = Record(0, "module", FALSE, "message", rec)
    /\ UNCHANGED <<retry_vars, req_pc, state_request_id, request_id_var, next_uuid, loggers,
                   bind_calls, middleware_installed, route_raises, path, path_params,
                   rc_request_id_var, state_has_logger, dependency_ran, exc, exc_at,
                   response, id_assignments, last_set, obtained, error_records,
                   audit_records, setup_arg, emit_log>>

NextCaller ==
    \E app_stack \in AppStacks, method \in Levels, has_currentframe \in BOOLEAN :
        LogDomainFrom(app_stack, method, has_currentframe)

SpecCaller == InitLog /\ [][NextCaller]_vars

\* ================================================================== properties
\* Helpers of the statements below.
Caught(cls) ==
    \E i \in DOMAIN exceptions_to_check : IsSubclass(cls, exceptions_to_check[i])
\* the operation's i-th invocation failed with a retryable error
FailedRetryably(c, i) == results[c][i] # "ok" /\ Caught(results[c][i])
FirstFailedRetryably(c, k) == \A i \in 1..k : FailedRetryably(c, i)
EventsOf(c, kind) == SelectSeq(trace[c], LAMBDA e : e.ev = kind /\ e.ok)
Durations(c) == [i \in 1..Len(EventsOf(c, "sleep")) |-> EventsOf(c, "sleep")[i].dur]
Backoffs(k) == [i \in 1..k |-> delay_seconds * backoff_factor ^ (i - 1)]

\* C1: with max_tries >= 1, an operation that fails k < max_tries times with a
\* retryable error and then succeeds is invoked exactly k+1 times, with k waits
\* of delay_seconds * backoff_factor^(i-1), i = 1..k, in that order, and the
\* wrapper returns the value of invocation k+1. (A wrapper that stops after
\* m < max_tries retryable failures has not made invocation m+1.)
C1_BackoffThenSuccess ==
    \A c \in active :
        (max_tries >= 1 /\ pc[c] = "done" /\ ~cancel_requested[c]) =>
            LET m == Len(results[c]) IN
            /\ ~(m < max_tries /\ FirstFailedRetryably(c, m))
            /\ (m >= 1 /\ results[c][m] = "ok" /\ FirstFailedRetryably(c, m - 1)) =>
                  /\ calls[c] = m
                  /\ Durations(c) = Backoffs(m - 1)
                  /\ outcome[c] = Value(m)

\* C1 for the calls that log through a logger object (not through the
\* logger_provider itself).
C1_BackoffThenSuccess_LoggerObject ==
    \A c \in active :
        (max_tries >= 1 /\ pc[c] = "done" /\ ~cancel_requested[c]
           /\ HasLogMethods(_get_logger(c))) =>
            LET m == Len(results[c]) IN
            /\ ~(m < max_tries /\ FirstFailedRetryably(c, m))
            /\ (m >= 1 /\ results[c][m] = "ok" /\ FirstFailedRetryably(c, m - 1)) =>
                  /\ calls[c] = m
                  /\ Durations(c) = Backoffs(m - 1)
                  /\ outcome[c] = Value(m)

\* C2: with max_tries >= 1, an operation that always fails with a retryable
\* error is invoked exactly max_tries times, with max_tries-1 warnings, one
\* error log after the last invocation and no wait after it, and the wrapper
\* raises the error of the last invocation itself.
C2_ExhaustionRaisesLast ==
    \A c \in active :
        (max_tries >= 1 /\ pc[c] = "done" /\ ~cancel_requested[c]
           /\ FirstFailedRetryably(c, Len(results[c]))) =>
            /\ calls[c] = max_tries
            /\ Len(EventsOf(c, "warning")) = max_tries - 1
            /\ Len(EventsOf(c, "error")) = 1
            /\ trace[c][Len(trace[c])].ev = "error"
            /\ outcome[c].kind = "error"
            /\ outcome[c].cls = results[c][max_tries]
            /\ outcome[c].n = max_tries

\* C2 for the calls that log through a logger object.
C2_ExhaustionRaisesLast_LoggerObject ==
    \A c \in active :
        (max_tries >= 1 /\ pc[c] = "done" /\ ~cancel_requested[c]
           /\ HasLogMethods(_get_logger(c))
           /\ FirstFailedRetryably(c, Len(results[c]))) =>
            /\ calls[c] = max_tries
            /\ Len(EventsOf(c, "warning")) = max_tries - 1
            /\ Len(EventsOf(c, "error")) = 1
            /\ trace[c][Len(trace[c])].ev = "error"
            /\ outcome[c].kind = "error"
            /\ outcome[c].cls = results[c][max_tries]
            /\ outcome[c].n = max_tries

\* C3: once an invocation (the first or a later one) has raised an error whose
\* class is not in exceptions_to_check, the wrapper is finished with that very
\* error: no further invocation, and nothing (no warning, no error log, no
\* wait) follows the invocation.
LastEvent(c) == trace[c][Len(trace[c])]
LastCall(c) == EventsOf(c, "call")[calls[c]]
C3_NonRetryablePropagates ==
    \A c \in active :
        (calls[c] > 0 /\ LastCall(c).what # "" /\ ~Caught(LastCall(c).what)) =>
            /\ pc[c] = "done"
            /\ outcome[c].kind = "error"
            /\ outcome[c].cls = LastCall(c).what
            /\ outcome[c].n = calls[c]
            /\ LastEvent(c) = LastCall(c)
            /\ Len(EventsOf(c, "warning")) = calls[c] - 1
            /\ Len(EventsOf(c, "sleep")) = calls[c] - 1
            /\ Len(EventsOf(c, "error")) = 0

\* a later attempt raised an error that is not retried
C3_Witness ==
    \E c \in active :
        /\ calls[c] >= 2
        /\ pc[c] = "done"
        /\ results[c][calls[c]] = "KindB"
        /\ ~Caught("KindB")
        /\ outcome[c] = Error("KindB", calls[c], "op")
        /\ Len(EventsOf(c, "sleep")) = calls[c] - 1

\* C4: the wrapper has the calling convention of the operation it wraps: the
\* wrapper of a synchronous operation hands back the operation's result (the
\* operation has run by the time the call returns), the wrapper of an
\* asynchronous one an awaitable.
C4_SameCallingConvention ==
    \A c \in active :
        pc[c] # "idle" =>
            /\ wrapper_returned[c] = UndecoratedReturns(is_async[c])
            /\ ~is_async[c] => (calls[c] > 0 \/ pc[c] = "done")

\* C5: the operation receives a logger keyword only if its signature declares
\* one.
C5_LoggerNotForwarded ==
    \A c \in active : func_got_logger[c] => declares_logger[c]

\* C6: every warning and error log of a call goes to the logger the caller
\* supplied: the explicit logger keyword when given, else the logger the
\* logger_provider resolves to, else the default logger.
SuppliedLogger(c) ==
    IF logger_kw[c] = "explicit" THEN "explicit"
    ELSE IF logger_provider THEN "resolved"
    ELSE "default"
C6_LogsToSuppliedLogger ==
    \A c \in active :
        \A i \in DOMAIN trace[c] :
            trace[c][i].ev \in {"warning", "error"} =>
                trace[c][i].ok /\ trace[c][i].what = SuppliedLogger(c)

\* C7: once the task is cancelled during a wait, the wait ends with the
\* cancellation: the call is still in that wait or has finished with
\* CancelledError, for the async and the sync wait alike.
C7_CancellationPropagates ==
    \A c \in active :
        cancel_requested[c] =>
            \/ pc[c] = "waiting"
            \/ pc[c] = "done" /\ outcome[c] = Error("CancelledError", 0, "cancel")

\* C7 for the wrapper of an asynchronous operation only.
C7_CancellationPropagates_Async ==
    \A c \in active :
        (cancel_requested[c] /\ is_async[c]) =>
            \/ pc[c] = "waiting"
            \/ pc[c] = "done" /\ outcome[c] = Error("CancelledError", 0, "cancel")

\* C8: under one policy and one sequence of operation outcomes the wrapper of
\* a synchronous operation (call 1) and of an asynchronous one (call 2) make
\* the same invocations, warnings, waits (with their durations) and error log
\* and end the same way; only the kind of the wait differs.
SameButSleepKind(t) ==
    [i \in DOMAIN t |-> IF t[i].ev = "sleep" THEN [t[i] EXCEPT !.what = "sleep"] ELSE t[i]]
SleepKinds(c) == {trace[c][i].what : i \in {j \in DOMAIN trace[c] : trace[c][j].ev = "sleep"}}
C8_SyncAsyncSymmetry ==
    (pc[1] = "done" /\ ~is_async[1] /\ is_async[2]) =>
        /\ pc[2] = "attempting" => calls[2] < calls[1]
        /\ pc[2] = "done" =>
              /\ results[2] = results[1]
              /\ SameButSleepKind(trace[2]) = SameButSleepKind(trace[1])
              /\ outcome[2] = outcome[1]
              /\ SleepKinds(1) \subseteq {"time.sleep"}
              /\ SleepKinds(2) \subseteq {"asyncio.sleep"}

\* both calls went through two waits of different lengths
C8_Witness ==
    /\ pc[1] = "done" /\ pc[2] = "done"
    /\ ~is_async[1] /\ is_async[2]
    /\ calls[1] = 3 /\ calls[2] = 3
    /\ Durations(1) = <<1, 2>>
    /\ Durations(2) = <<1, 2>>

\* C9: of two requests handled at the same time under different ids, every
\* record (each is the last record of the state that follows its emission)
\* emitted while handling one of them, through a logger obtained or
\* bound during that request (a logger instance shared between requests
\* included), carries that request's id, and the context variable read in a
\* request holds that request's id.
C9_RecordsCarryOwnId ==
    /\ last_record.own => last_record.request_id = state_request_id[last_record.req]
    /\ \A r \in Requests : request_id_var[r] \in {None, state_request_id[r]}

\* C9 for the loggers a request obtained itself (request.state.logger and
\* the loggers get_logger returned during the request).
C9_RecordsCarryOwnId_OwnLoggers ==
    /\ last_record.via \in {"state", "get_logger"} =>
          last_record.request_id = state_request_id[last_record.req]
    /\ \A r \in Requests : request_id_var[r] \in {None, state_request_id[r]}

\* C10: bind_request_id(id) on a logger L leaves L as it was (its request_id
\* and its domain and audit loggers); only the logger it returns carries id.
C10_BindLeavesOriginal ==
    [][bind_calls' # bind_calls => loggers'[0] = loggers[0]]_vars

\* C13: a log call never raises: whatever the level method (or audit), the
\* message and the caller's key/value fields, fields named like the logger's
\* own keys (log_type, module, func_name, lineno) included, the call returns
\* normally.
C13_LogCallNeverRaises ==
    last_record.raised = ""

\* C14: every record emitted carries the kind domain or audit and nothing
\* else: audit tags it audit and sends it through the audit logger, the
\* level methods tag it domain and send it through the domain logger.
C14_KindMatchesMethod ==
    (last_record # NoRecord /\ last_record.raised = "") =>
        /\ last_record.log_type \in {"domain", "audit"}
        /\ last_record.method = "audit" =>
              (last_record.log_type = "audit" /\ last_record.logger = "audit")
        /\ last_record.method \in Levels =>
              (last_record.log_type = "domain" /\ last_record.logger = "domain"
               /\ last_record.level = last_record.method)

\* an audit record and a domain record with caller fields, from a bound logger
C14_Witness ==
    /\ last_record.raised = ""
    /\ last_record.method = "audit"
    /\ last_record.log_type = "audit"
    /\ last_record.kwargs = {"item_id"}
    /\ last_record.request_id # None
    /\ \E l \in LoggerNames : loggers[l].request_id = None

\* C11: a logger obtained inside a request with get_logger(name) and no
\* explicit request_id is bound to the id a request-entry setup stored last
\* for that request, and to none when no id was set.
C11_AmbientIdIsLastSet ==
    \A r \in Requests :
        obtained[r].got => obtained[r].logger.request_id = obtained[r].ambient

\* C12: each request's correlation id is assigned once during that request,
\* and no two distinct requests have the same correlation id.
C12_IdOncePerRequest ==
    /\ \A r \in Requests : Len(id_assignments[r]) <= 1
    /\ \A r1, r2 \in Requests :
          (r1 # r2 /\ state_request_id[r1] # None /\ state_request_id[r2] # None)
             => state_request_id[r1] # state_request_id[r2]

\* The error-level records of request r that are about the exception e.
RecordsAbout(r, e) == { i \in DOMAIN error_records[r] : error_records[r][i].exc = e }
Failed(r) == req_pc[r] = "done" /\ route_raises # NoExc

\* C15: a domain error raised by a handler with declared status s and
\* message m is answered with status s and the JSON body {"code": s,
\* "message": m}, and the error record logged for it by the handlers carries
\* error = m, status_code = s and exception_type = the class name.
C15_DomainErrorResponse ==
    \A r \in Requests :
        (Failed(r) /\ route_raises.cls \in DomainClasses) =>
            /\ response[r].status = route_raises.status_code
            /\ response[r].body = "json"
            /\ response[r].keys = {"code", "message"}
            /\ response[r].code = route_raises.status_code
            /\ response[r].message = route_raises.message
            /\ \E i \in RecordsAbout(r, route_raises) :
                  /\ error_records[r][i].by = "log_exception"
                  /\ error_records[r][i].error = route_raises.message
                  /\ error_records[r][i].has_status_code
                  /\ error_records[r][i].status_code = route_raises.status_code
                  /\ error_records[r][i].exception_type = route_raises.cls

\* C15 for the domain errors whose declared status is within 100..599.
C15_DomainErrorResponse_ValidStatus ==
    \A r \in Requests :
        (Failed(r) /\ route_raises.cls \in DomainClasses
                   /\ route_raises.status_code \in 100..599) =>
            /\ response[r].status = route_raises.status_code
            /\ response[r].keys = {"code", "message"}
            /\ response[r].code = route_raises.status_code
            /\ response[r].message = route_raises.message
            /\ \E i \in RecordsAbout(r, route_raises) :
                  /\ error_records[r][i].by = "log_exception"
                  /\ error_records[r][i].status_code = route_raises.status_code

\* C16: an error raised while a request is handled is logged at error level
\* exactly once by the time the request has ended, counting the exception
\* handlers, the middleware and on_request_error together.
C16_LoggedExactlyOnce ==
    \A r \in Requests :
        Failed(r) => Cardinality(RecordsAbout(r, route_raises)) = 1

\* C16 for the records of the boundaries alone (exception handlers and
\* middleware) and the errors they are registered for.
C16_LoggedExactlyOnce_Boundaries ==
    \A r \in Requests :
        (Failed(r) /\ (route_raises.cls \in DomainClasses \/ IsUnclassified(route_raises))) =>
            Cardinality({ i \in RecordsAbout(r, route_raises) :
                            error_records[r][i].by \in {"log_exception", "dispatch"} }) = 1

\* C17: a request that failed has a response; the response's body is
\* structured, with a numeric code and a message; an unclassified error is
\* answered with 500 and a generic message.
GenericMessages == {"Internal Server Error"}
C17_StructuredErrorResponse ==
    \A r \in Requests :
        Failed(r) =>
            /\ response[r] # NoResponse
            /\ response[r].body = "json"
            /\ {"code", "message"} \subseteq response[r].keys
            /\ IsUnclassified(route_raises) =>
                  (response[r].status = 500 /\ response[r].message \in GenericMessages)

\* The exception the generic handler took in request r, once it has run: the
\* one of the last error record.
GenericHandlerRan(r) ==
    /\ req_pc[r] = "done"
    /\ response[r].by \in {"generic_exception_handler", "server"}
TakenByGeneric(r) == error_records[r][Len(error_records[r])].exc

C19_ErrorObjectsHaveValidCode ==
    \A r \in Requests :
        /\ exc[r].cls \in DomainClasses => exc[r].status_code \in 100..599
        /\ response[r].by \in {"pnc_exception_handler", "generic_exception_handler"} =>
              response[r].code \in 100..599

\* '<location joined by dots>: <message>'
RECURSIVE JoinDots(_)
JoinDots(loc) ==
    IF Len(loc) = 0 THEN ""
    ELSE IF Len(loc) = 1 THEN loc[1]
    ELSE loc[1] \o "." \o JoinDots(Tail(loc))
ErrorString(err) == JoinDots(err.loc) \o ": " \o err.msg

\* C20: a request validation error is answered with status 400 and a body
\* holding 'Bad request' and, for each error entry, its location and message
\* as one string; it is not raised further.
C20_ValidationTo400 ==
    \A r \in Requests :
        (Failed(r) /\ route_raises.cls = "RequestValidationError") =>
            /\ response[r].status = 400
            /\ response[r].message = "Bad request"
            /\ \A i \in DOMAIN route_raises.errors :
                  \E j \in DOMAIN response[r].detail :
                      response[r].detail[j] = ErrorString(route_raises.errors[i])
            /\ response[r].by \notin {"dispatch", "server"}

\* C21: an exception handler logs a failed request through the request's
\* own logger (request.state.logger) whenever the request has one, and
\* through the fallback logger of the handlers' module only when it has
\* none: with a request logger present the record is the request logger's
\* (it carries the id bound to it), not the fallback logger's.
C21_RequestLoggerPreferred ==
    last_record.message = "Request failed" =>
        LET r == last_record.req IN
        /\ state_has_logger[r] =>
              /\ last_record.via = "state"
              /\ last_record.request_id = loggers[r].domain_logger
        /\ ~state_has_logger[r] =>
              /\ last_record.via = "module"
              /\ last_record.request_id = loggers[0].domain_logger

\* a handler logged the failure of a request whose logger is bound to the
\* request's id, while the fallback logger is bound to none
C21_Witness ==
    /\ last_record.message = "Request failed"
    /\ last_record.raised = ""
    /\ state_has_logger[last_record.req]
    /\ last_record.request_id = state_request_id[last_record.req]
    /\ last_record.request_id # None
    /\ loggers[0].domain_logger = None

\* C27: the status code written to the error log of a failed request equals
\* the status code of the response sent for it: for every exception the
\* registered handlers take (a domain error, or any other exception, with or
\* without a status_code attribute of its own), the status_code field of the
\* 'Request failed' record equals the response's status.
C27_LoggedStatusIsResponseStatus ==
    \A r \in Requests :
        req_pc[r] = "done" =>
            \A i \in DOMAIN error_records[r] :
                error_records[r][i].by = "log_exception" =>
                    /\ error_records[r][i].has_status_code
                    /\ error_records[r][i].status_code = response[r].status

\* C29: the wrapper never invents an outcome: for every max_tries (zero
\* included) and every behaviour of the operation, a value the wrapper
\* returns is the value its last invocation of the operation returned, and
\* an error it raises is one the operation raised during this call (or the
\* cancellation of the task that awaits it).
C29_NeverInventsOutcome ==
    \A c \in active :
        pc[c] = "done" =>
            /\ outcome[c].kind \in {"value", "error"}
            /\ outcome[c].kind = "value" => outcome[c] = Value(calls[c])
            /\ outcome[c].kind = "error" =>
                  \/ outcome[c].src = "cancel"
                  \/ /\ outcome[c].src \in {"op", "binding"}
                     /\ outcome[c].n \in 1..calls[c]
                     /\ results[c][outcome[c].n] = outcome[c].cls

\* C30: calls of one wrapper that are in flight at once share no attempt
\* state: under every interleaving each call numbers its own attempts from
\* 1 (the k-th warning of a call is about attempt k and announces the wait
\* of attempt k, and its k-th wait is that wait), is at the attempt that
\* follows its own invocations, makes at most max_tries invocations, and
\* ends with the outcome of its own last invocation.
C30_CallsShareNoAttemptState ==
    \A c \in active :
        /\ calls[c] <= max_tries
        /\ pc[c] = "attempting" => attempt[c] = calls[c] + 1
        /\ pc[c] = "waiting" => attempt[c] = calls[c]
        /\ \A i \in DOMAIN EventsOf(c, "warning") :
              /\ EventsOf(c, "warning")[i].n = i
              /\ EventsOf(c, "warning")[i].dur = WaitTime(i)
        /\ \A i \in DOMAIN Durations(c) : Durations(c)[i] = WaitTime(i)
        /\ Len(Durations(c)) = Len(EventsOf(c, "warning"))
        /\ pc[c] = "done" =>
              /\ outcome[c].kind = "value" =>
                    (outcome[c] = Value(calls[c]) /\ results[c][calls[c]] = "ok")
              /\ (outcome[c].kind = "error" /\ outcome[c].src = "op") =>
                    (outcome[c].n = calls[c] /\ outcome[c].cls = results[c][calls[c]])

\* both calls are in a wait at once, the first after its second attempt and
\* the second after its first, and the operation behaved differently for them
C30_Witness ==
    /\ active = {1, 2}
    /\ pc[1] = "waiting" /\ pc[2] = "waiting"
    /\ attempt[1] = 2 /\ attempt[2] = 1
    /\ results[1] = <<"KindA", "KindB">> /\ results[2] = <<"KindB">>
    /\ Durations(1) = <<1, 2>>
    /\ Durations(2) = <<1>>

\* id was generated for request r: a new uuid, stored last, that neither an
\* earlier assignment of r nor any other request holds
Generated(r, id) ==
    /\ id \in 1..(next_uuid - 1)
    /\ id_assignments[r] # <<>>
    /\ id_assignments[r][Len(id_assignments[r])] = id
    /\ \A i \in 1..(Len(id_assignments[r]) - 1) : id_assignments[r][i] # id
    /\ \A q \in Requests \ {r} : \A i \in DOMAIN id_assignments[q] : id_assignments[q][i] # id

\* C24: for every path outside /token and /healthcheck, setup_request_context
\* chooses the request id by this precedence: its request_id argument when
\* given; otherwise a newly generated id when the path is /request; otherwise
\* the {requestId} path parameter when there is one; otherwise a newly
\* generated id. That one id is then in the context variable, in
\* request.state.request_id and bound to the logger in request.state.logger.
C24_SetupPrecedence ==
    \A r \in Requests :
        (setup_arg[r].called /\ path[r] \notin NON_REQUEST_ID_ENDPOINTS) =>
            LET id == state_request_id[r]
                arg == setup_arg[r].request_id
            IN
            /\ id # None
            /\ rc_request_id_var[r] = id
            /\ state_has_logger[r]
            /\ loggers[r] = bind_request_id(CustomLogger, id)
            /\ arg # None => id = arg
            /\ (arg = None /\ path[r] \in REQUEST_ID_ENDPOINTS) => Generated(r, id)
            /\ (arg = None /\ path[r] \notin REQUEST_ID_ENDPOINTS /\ path_params[r] # None) =>
                  id = path_params[r]
            /\ (arg = None /\ path[r] \notin REQUEST_ID_ENDPOINTS /\ path_params[r] = None) =>
                  Generated(r, id)

\* a request whose path has a {requestId} was set up with another id as the
\* argument, and a request to /ocr was set up with no argument
C24_Witness ==
    \E r, q \in Requests :
        /\ path[r] = "/classify/{requestId}" /\ path_params[r] = -1
        /\ setup_arg[r] = CalledWith(-2)
        /\ state_request_id[r] = -2
        /\ path[q] = "/ocr"
        /\ setup_arg[q] = CalledWith(None)
        /\ Generated(q, state_request_id[q])

\* C25: for /token and /healthcheck request-id handling is skipped: once such
\* a request was set up (setup_request_context, also through
\* process_request_logging), the setup has written no request id to the
\* context variable or to request.state.request_id (which holds what the
\* middleware stored, if anything), and the logger in request.state.logger
\* has no request id bound.
C25_NoIdForTokenAndHealthcheck ==
    \A r \in Requests :
        (setup_arg[r].called /\ path[r] \in NON_REQUEST_ID_ENDPOINTS) =>
            /\ Len(id_assignments[r]) = IF middleware_installed THEN 1 ELSE 0
            /\ rc_request_id_var[r] = None
            /\ state_has_logger[r]
            /\ loggers[r] = CustomLogger

\* C26: all log records of one request carry one request id: when a request
\* passes through RequestLoggingMiddleware.dispatch and then through a
\* request-logging dependency, the 'HTTP Request Received' record, the
\* records that follow and the 'HTTP Request Completed' record carry the
\* same request_id, and at every point after the setup that id is
\* request.state.request_id and the ambient context value.
C26_OneIdPerRequest ==
    \A r \in Requests :
        (middleware_installed /\ setup_arg[r].called) =>
            /\ \A i \in DOMAIN audit_records[r] :
                  audit_records[r][i].request_id = state_request_id[r]
            /\ last_record.req = r => last_record.request_id = state_request_id[r]
            /\ request_id_var[r] = state_request_id[r]

\* The audit records of request r with the given message.
AuditRecordsOf(r, message) ==
    { i \in DOMAIN audit_records[r] : audit_records[r][i].message = message }

\* C28: for every request entering dispatch, exactly one 'HTTP Request
\* Received' audit record is emitted before the downstream handler starts and
\* exactly one 'HTTP Request Completed' audit record after it ends, however
\* it ends (a response, an exception, the cancellation of the task); the
\* Completed record's status_code is the status of the response dispatch
\* returns, which is 500 when call_next raised.
C28_ReceivedAndCompleted ==
    \A r \in Requests :
        middleware_installed =>
            /\ req_pc[r] = "new" => audit_records[r] = <<>>
            /\ req_pc[r] # "new" => AuditRecordsOf(r, "HTTP Request Received") = {1}
            /\ req_pc[r] = "handling" => AuditRecordsOf(r, "HTTP Request Completed") = {}
            /\ req_pc[r] = "done" =>
                  /\ AuditRecordsOf(r, "HTTP Request Completed") = {2}
                  /\ Len(audit_records[r]) = 2
                  /\ audit_records[r][2].has_status_code
                  /\ audit_records[r][2].status_code = response[r].status
                  /\ response[r].by = "dispatch" => response[r].status = 500

\* C28 for the requests whose task is not cancelled.
C28_ReceivedAndCompleted_NotCancelled ==
    \A r \in Requests :
        (middleware_installed /\ exc[r].cls # "UnboundLocalError") =>
            /\ req_pc[r] = "new" => audit_records[r] = <<>>
            /\ req_pc[r] # "new" => AuditRecordsOf(r, "HTTP Request Received") = {1}
            /\ req_pc[r] = "handling" => AuditRecordsOf(r, "HTTP Request Completed") = {}
            /\ req_pc[r] = "done" =>
                  /\ AuditRecordsOf(r, "HTTP Request Completed") = {2}
                  /\ Len(audit_records[r]) = 2
                  /\ audit_records[r][2].has_status_code
                  /\ audit_records[r][2].status_code = response[r].status
                  /\ response[r].by = "dispatch" => response[r].status = 500

\* the shipping of the record failed: it was not posted, or the intake
\* answered with a status of 400 or more
ShippingFailed(e) == ~e.posted \/ e.status_code >= 400

\* C22: a failure to ship a record never affects request handling: emit
\* returns normally for every record, whatever goes wrong while formatting,
\* decoding, adding the metadata or posting (no connection, timeout, a status
\* of 400 or more, a formatted record that is not a JSON object), and the
\* failure is reported locally, by a printed line.
C22_EmitNeverRaises ==
    \A i \in DOMAIN emit_log :
        /\ emit_log[i].raised = ""
        /\ ShippingFailed(emit_log[i]) <=> emit_log[i].printed # ""

\* a record formatted as a JSON array and a record the intake answered with
\* 500 were handed to emit, and both calls returned
C22_Witness ==
    /\ Len(emit_log) = 2
    /\ emit_log[1].format = "json_array" /\ emit_log[1].data = "list"
    /\ ~emit_log[1].posted /\ emit_log[1].raised = ""
    /\ emit_log[1].printed = "Failed to send logs to Datadog"
    /\ emit_log[2].format = "text" /\ emit_log[2].posted
    /\ emit_log[2].status_code = 500
    /\ emit_log[2].printed = "Datadog API error"

\* The frames of a stack that are not the logger's own, by position.
Outside(stack) == { i \in DOMAIN stack : ~stack[i].own }
Innermost(S) == CHOOSE i \in S : \A j \in S : j <= i

\* C23: caller-location resolution is defensive and points at the caller:
\* for every domain log call the location attached to the record is that of
\* the first frame outside the logger's own frames (module 'unknown' for a
\* frame that belongs to no module); when the stack has no such frame or the
\* interpreter gives no frames, it is module 'unknown', function 'unknown',
\* line 0; and the log call completes.
C23_CallerLocation ==
    caller_lookup.completed =>
        LET stack == caller_lookup.stack IN
        /\ caller_lookup.raised = ""
        /\ (caller_lookup.has_currentframe /\ Outside(stack) # {}) =>
              LET caller == stack[Innermost(Outside(stack))] IN
              /\ caller_lookup.info.func_name = caller.func_name
              /\ caller_lookup.info.lineno = caller.lineno
              /\ caller_lookup.info.module =
                    IF caller.module = "" THEN "unknown" ELSE caller.module
        /\ (~caller_lookup.has_currentframe \/ Outside(stack) = {}) =>
              caller_lookup.info = [module |-> "unknown", func_name |-> "unknown", lineno |-> 0]

\* log_exception, called from a route's frame, logged an error: the location
\* is log_exception's, and the cache holds two locations by now
C23_Witness ==
    /\ caller_lookup.completed
    /\ Len(caller_lookup.stack) = 5
    /\ caller_lookup.stack[1].func_name = "create_item"
    /\ caller_lookup.stack[3].func_name = "error"
    /\ caller_lookup.info =
          [module |-> "common.exceptions.handlers", func_name |-> "log_exception", lineno |-> 16]
    /\ Cardinality(caller_info_cache) = 2

====
